---- MODULE Spec2Model ----
(***************************************************************************)
(* Model of msi-bios-editor.py: the NVRAM export parser, the validator,    *)
(* the undo/redo history, the generator and the load/save worker threads   *)
(* of EnhancedBIOSSettingsGUI.                                             *)
(*                                                                         *)
(* Text is a sequence of tokens.  A token is one punctuation character     *)
(* ("=", "<", "[", "*", ...), one whitespace character (" ", "\t", "\n"),  *)
(* the comment opener "//", or one maximal word ("Value", "Setup Question",*)
(* "31", "Enabled").  Every string operation of the source (find, split,   *)
(* strip, startswith, replace, the regular expressions) is computed on     *)
(* that sequence.                                                          *)
(***************************************************************************)
EXTENDS Integers, Sequences, FiniteSets, TLC

VARIABLES
    text,             \* codec: the export text handed to parse_file
    pc,               \* codec: "init", "parsed", "rendered", "reparsed"; "gui" in a session
    out,              \* codec: the text generate_nvram_file wrote
    reparsed,         \* codec: the settings parsed back from out
    settings,         \* EnhancedBIOSSettingsGUI.settings
    settings_ref,     \* the id of the list object self.settings refers to
    raw_header,       \* OptimizedNVRAMParser.raw_header
    crc32,            \* OptimizedNVRAMParser.header_info['crc32'] (<<>> when absent)
    parser_settings,  \* OptimizedNVRAMParser.settings: [id, list]
    undo_stack,       \* EnhancedBIOSSettingsGUI.undo_stack
    redo_stack,       \* EnhancedBIOSSettingsGUI.redo_stack
    invalid_fields,   \* EnhancedBIOSSettingsGUI._invalid_fields
    entries,          \* the widgets of the page: entry texts, validation timers, refresh timer
    loads,            \* the load_worker threads started so far
    saver,            \* the write path: its dialogs and the save_worker / import_worker thread
    grab,             \* the window holding the modal grab (<<>> when none)
    files,            \* what the write paths produced
    hist              \* history variable: the script of edits, undos and redos so far

vars == <<text, pc, out, reparsed, settings, settings_ref, raw_header, crc32, parser_settings,
          undo_stack, redo_stack, invalid_fields, entries, loads, saver, grab, files, hist>>

-----------------------------------------------------------------------------
(* Characters and words *)

NL == "\n"
SQ == "Setup Question"

IsSpace(c) == c \in {" ", "\t"}

\* str.strip() / \s : blanks, tabs and newlines
IsWs(c) == c \in {" ", "\t", "\n"}

\* words consisting of decimal digits only (str.isdigit, \d+)
DigitWords == {"0", "1", "5", "7", "9", "00", "01", "02", "03", "31", "32", "99"}

\* words consisting of hex digits only ([A-Fa-f0-9]+)
HexWords == DigitWords \cup {"0A", "1F", "A1"}

\* int(word) for \d+ matches
DecOf(w) ==
    CASE w \in {"0", "00"} -> 0
      [] w \in {"1", "01"} -> 1
      [] w = "02" -> 2
      [] w = "03" -> 3
      [] w = "5" -> 5
      [] w = "7" -> 7
      [] w = "9" -> 9
      [] w = "31" -> 31
      [] w = "32" -> 32
      [] w = "99" -> 99
      [] OTHER -> -1

\* int(word, 0): decimal without leading zeros (all-zero allowed), or 0x-prefixed hex;
\* -1 stands for ValueError
Int0Of(w) ==
    CASE w \in {"0", "00"} -> 0
      [] w = "1" -> 1
      [] w = "5" -> 5
      [] w = "7" -> 7
      [] w = "9" -> 9
      [] w = "31" -> 31
      [] w = "32" -> 32
      [] w = "99" -> 99
      [] w = "0x1F" -> 31
      [] w = "0x40" -> 64
      [] OTHER -> -1

\* str.lower() of one token
LowerTok(c) ==
    CASE c = "Setup Question" -> "setup question"
      [] c = "Help String" -> "help string"
      [] c = "Token" -> "token"
      [] c = "Options" -> "options"
      [] c = "Value" -> "value"
      [] c = "BIOS Default" -> "bios default"
      [] c = "Offset" -> "offset"
      [] c = "Width" -> "width"
      [] c = "Enabled" -> "enabled"
      [] c = "Disabled" -> "disabled"
      [] c = "Enable" -> "enable"
      [] c = "Boost" -> "boost"
      [] c = "Freq" -> "freq"
      [] c = "Mode" -> "mode"
      [] c = "Auto" -> "auto"
      [] c = "Range" -> "range"
      [] c = "0A" -> "0a"
      [] c = "1F" -> "1f"
      [] c = "A1" -> "a1"
      [] c = "0x1F" -> "0x1f"
      [] c = "HIICrc32" -> "hiicrc32"
      [] c = "Script" -> "script"
      [] OTHER -> c

\* 'enable' in word.lower() or 'disable' in word.lower()
HasEnableDisable(c) == LowerTok(c) \in {"enable", "enabled", "disable", "disabled"}

\* len(word)
CharLen(c) ==
    CASE c = "Setup Question" -> 14
      [] c = "Help String" -> 11
      [] c = "BIOS Default" -> 12
      [] c \in {"Enabled", "Options"} -> 7
      [] c \in {"Disabled", "HIICrc32"} -> 8
      [] c \in {"Enable", "Offset", "Script"} -> 6
      [] c \in {"Token", "Value", "Width", "Boost", "Range", "range"} -> 5
      [] c \in {"Freq", "Mode", "Auto", "0x1F", "0x40"} -> 4
      [] c \in {"//", "00", "01", "02", "03", "31", "32", "99", "0A", "1F", "A1"} -> 2
      [] OTHER -> 1

RECURSIVE StrLen(_)
StrLen(s) == IF s = <<>> THEN 0 ELSE CharLen(Head(s)) + StrLen(Tail(s))

-----------------------------------------------------------------------------
(* String operations *)

MinOf(S) == CHOOSE x \in S : \A y \in S : x <= y

Has(s, c) == \E i \in 1..Len(s) : s[i] = c

\* str.find(c, from): the first index >= from holding c, 0 when there is none
Find(s, c, from) ==
    LET I == {i \in from..Len(s) : s[i] = c}
    IN  IF I = {} THEN 0 ELSE MinOf(I)

RECURSIVE LStrip(_)
LStrip(s) == IF s # <<>> /\ IsWs(Head(s)) THEN LStrip(Tail(s)) ELSE s

RECURSIVE RStrip(_)
RStrip(s) ==
    IF s # <<>> /\ IsWs(s[Len(s)]) THEN RStrip(SubSeq(s, 1, Len(s) - 1)) ELSE s

Strip(s) == RStrip(LStrip(s))

\* str.strip('<>')
RECURSIVE StripAngles(_)
StripAngles(s) ==
    IF s # <<>> /\ s[1] \in {"<", ">"} THEN StripAngles(Tail(s))
    ELSE IF s # <<>> /\ s[Len(s)] \in {"<", ">"} THEN StripAngles(SubSeq(s, 1, Len(s) - 1))
    ELSE s

From(s, i) == SubSeq(s, i, Len(s))

\* str.replace(c, '', 1)
RemoveFirst(s, c) ==
    LET i == Find(s, c, 1)
    IN  IF i = 0 THEN s ELSE SubSeq(s, 1, i - 1) \o From(s, i + 1)

\* str.split('\n')
RECURSIVE SplitLines(_)
SplitLines(s) ==
    LET i == Find(s, NL, 1)
    IN  IF i = 0 THEN <<s>> ELSE <<SubSeq(s, 1, i - 1)>> \o SplitLines(From(s, i + 1))

\* needle in haystack
Contains(hay, needle) ==
    \E i \in 1..(Len(hay) - Len(needle) + 1) : SubSeq(hay, i, i + Len(needle) - 1) = needle

Lower(s) == [i \in 1..Len(s) |-> LowerTok(s[i])]

\* index of the first non-whitespace token at or after i (Len(s)+1 when none)
SkipWs(s, i) ==
    LET I == {j \in i..Len(s) : ~IsWs(s[j])}
    IN  IF I = {} THEN Len(s) + 1 ELSE MinOf(I)

RECURSIVE Concat(_)
Concat(ss) == IF ss = <<>> THEN <<>> ELSE Head(ss) \o Concat(Tail(ss))

-----------------------------------------------------------------------------
(* BIOSSetting *)

NoRange == -1   \* range_min / range_max = None

BIOSSetting ==
    [setup_question |-> <<>>, help_string |-> <<>>, token |-> "", offset |-> <<>>,
     width |-> <<>>, bios_default |-> <<>>, options |-> <<>>, current_value |-> <<>>,
     is_numeric |-> FALSE, original_value |-> <<>>, original_has_options |-> FALSE,
     original_block_lines |-> <<>>, range_min |-> NoRange, range_max |-> NoRange]

-----------------------------------------------------------------------------
(* OptimizedNVRAMParser *)

\* re: Setup Question\s*=\s*(.+) searched in a line; <<>> when it does not match,
\* else <<group(1)>>
SetupQuestionMatch(line) ==
    LET I == {i \in 1..Len(line) :
                 /\ line[i] = SQ
                 /\ SkipWs(line, i + 1) <= Len(line)
                 /\ line[SkipWs(line, i + 1)] = "="
                 /\ SkipWs(line, i + 1) < Len(line)}
    IN  IF I = {} THEN <<>>
        ELSE LET e == SkipWs(line, MinOf(I) + 1)
                 g == SkipWs(line, e + 1)
             IN  \* \s* gives back one character when only whitespace follows "="
                 <<IF g > Len(line) THEN <<line[Len(line)]>> ELSE From(line, g)>>

\* re: Token\s*=\s*([A-Fa-f0-9]+) searched in a line; "" when it does not match
TokenMatch(line) ==
    LET I == {i \in 1..Len(line) :
                 /\ line[i] = "Token"
                 /\ SkipWs(line, i + 1) <= Len(line)
                 /\ line[SkipWs(line, i + 1)] = "="
                 /\ SkipWs(line, SkipWs(line, i + 1) + 1) <= Len(line)
                 /\ line[SkipWs(line, SkipWs(line, i + 1) + 1)] \in HexWords}
    IN  IF I = {} THEN "" ELSE line[SkipWs(line, SkipWs(line, MinOf(I) + 1) + 1)]

\* re: <([^>]+)> searched in a line; <<>> when it does not match, else <<group(1)>>
AngleMatch(line) ==
    LET I == {i \in 1..Len(line) : line[i] = "<" /\ Find(line, ">", i + 1) >= i + 2}
    IN  IF I = {} THEN <<>>
        ELSE <<SubSeq(line, MinOf(I) + 1, Find(line, ">", MinOf(I) + 1) - 1)>>

\* re: range[:=]?\s*(\d+)\s*[~\-]\s*(\d+) searched in the help string (the parser's
\* compiled pattern ignores case, the validator's inline one does not);
\* <<>> when it does not match, else <<int(group(1)), int(group(2))>>
RangeMatchAt(h, i, ignorecase) ==
    LET a == IF i + 1 <= Len(h) /\ h[i + 1] \in {":", "="} THEN i + 2 ELSE i + 1
        lo == SkipWs(h, a)
        sep == SkipWs(h, lo + 1)
        hi == SkipWs(h, sep + 1)
    IN  IF /\ (IF ignorecase THEN LowerTok(h[i]) ELSE h[i]) = "range"
           /\ hi <= Len(h)
           /\ h[lo] \in DigitWords
           /\ h[sep] \in {"~", "-"}
           /\ h[hi] \in DigitWords
        THEN <<DecOf(h[lo]), DecOf(h[hi])>>
        ELSE <<>>

RangeMatch(h, ignorecase) ==
    LET I == {i \in 1..Len(h) : RangeMatchAt(h, i, ignorecase) # <<>>}
    IN  IF I = {} THEN <<>> ELSE RangeMatchAt(h, MinOf(I), ignorecase)

\* str.isdigit()
IsDigit(v) == v # <<>> /\ \A i \in 1..Len(v) : v[i] \in DigitWords

_extract_value_fast(line) ==
    IF ~Has(line, "=") THEN <<>>
    ELSE LET value == Strip(From(line, Find(line, "=", 1) + 1))
         IN  IF value # <<>> /\ value[1] = "<" /\ value[Len(value)] = ">"
             THEN SubSeq(value, 2, Len(value) - 1)
             ELSE value

_process_option_line_fast(setting, line) ==
    LET is_current == Has(line, "*")
        clean_line == IF is_current THEN RemoveFirst(line, "*") ELSE line
        start == Find(clean_line, "[", 1)
        end == IF start = 0 THEN 0 ELSE Find(clean_line, "]", start)
        comment_pos == Find(clean_line, "//", end + 1)
        value == Strip(SubSeq(clean_line, start + 1, end - 1))
        description ==
            Strip(SubSeq(clean_line, end + 1,
                         IF comment_pos # 0 THEN comment_pos - 1 ELSE Len(clean_line)))
    IN  IF start # 0 /\ end # 0
        THEN [setting EXCEPT
                 !.options = Append(@, [value |-> value, desc |-> description,
                                        is_current |-> is_current]),
                 !.current_value = IF is_current THEN value ELSE @]
        ELSE setting

\* one iteration of "for line in lines[1:]" (the prefix dispatch)
ParseFieldLine(setting, line) ==
    CASE line[1] = "Help String" -> [setting EXCEPT !.help_string = _extract_value_fast(line)]
      [] line[1] = "Token" ->
            IF TokenMatch(line) # "" THEN [setting EXCEPT !.token = TokenMatch(line)]
            ELSE setting
      [] line[1] = "Offset" -> [setting EXCEPT !.offset = _extract_value_fast(line)]
      [] line[1] = "Width" -> [setting EXCEPT !.width = _extract_value_fast(line)]
      [] line[1] = "BIOS Default" ->
            [setting EXCEPT !.bios_default = StripAngles(_extract_value_fast(line))]
      [] line[1] = "Value" ->
            [setting EXCEPT !.current_value =
                IF AngleMatch(line) # <<>> THEN AngleMatch(line)[1]
                ELSE _extract_value_fast(line)]
      [] line[1] = "Options" \/ Has(line, "[") -> _process_option_line_fast(setting, line)
      [] OTHER -> setting

RECURSIVE ParseFieldLines(_, _)
ParseFieldLines(setting, lines) ==
    IF lines = <<>> THEN setting
    ELSE ParseFieldLines(ParseFieldLine(setting, Head(lines)), Tail(lines))

\* [line for line in block.split('\n') if line.strip()]
RECURSIVE NonBlank(_)
NonBlank(ls) ==
    IF ls = <<>> THEN <<>>
    ELSE (IF Strip(Head(ls)) # <<>> THEN <<Head(ls)>> ELSE <<>>) \o NonBlank(Tail(ls))

\* [line.strip() for line in block_lines if not line.strip().startswith('//')]
RECURSIVE Semantic(_)
Semantic(ls) ==
    IF ls = <<>> THEN <<>>
    ELSE (IF Strip(Head(ls))[1] # "//" THEN <<Strip(Head(ls))>> ELSE <<>>)
         \o Semantic(Tail(ls))

\* lines 274-288: numeric flag, range from the help string, Enabled/Disabled synthesis
InferNumeric(s) ==
    LET r == RangeMatch(s.help_string, TRUE)
        s1 == IF IsDigit(s.current_value)
              THEN [s EXCEPT !.is_numeric = TRUE,
                             !.range_min = IF r # <<>> THEN r[1] ELSE @,
                             !.range_max = IF r # <<>> THEN r[2] ELSE @]
              ELSE s
    IN  IF /\ s1.current_value \in {<<"0">>, <<"1">>}
           /\ s1.options = <<>>
           /\ \E i \in 1..Len(s1.setup_question) : HasEnableDisable(s1.setup_question[i])
        THEN [s1 EXCEPT
                 !.options = << [value |-> <<"1">>, desc |-> <<"Enabled">>,
                                 is_current |-> s1.current_value = <<"1">>],
                                [value |-> <<"0">>, desc |-> <<"Disabled">>,
                                 is_current |-> s1.current_value = <<"0">>] >>,
                 !.is_numeric = FALSE]
        ELSE s1

\* the parsed setting as a sequence of length 1, or <<>> for None
_parse_setting_block_optimized(block) ==
    LET block_lines == NonBlank(SplitLines(block))
        lines == Semantic(block_lines)
    IN  IF Strip(block) = <<>> \/ Strip(block)[1] = "//" THEN <<>>
        ELSE IF lines = <<>> THEN <<>>
        ELSE IF SetupQuestionMatch(lines[1]) = <<>> THEN <<>>
        ELSE LET s0 == [BIOSSetting EXCEPT
                           !.original_block_lines = block_lines,
                           !.setup_question = Strip(SetupQuestionMatch(lines[1])[1])]
                 s == InferNumeric(ParseFieldLines(s0, Tail(lines)))
             IN  IF s.setup_question # <<>> /\ s.token # "" THEN <<s>> ELSE <<>>

\* content.find("Setup Question"), 1-based, 0 when absent
HeaderEndPos(content) == Find(content, SQ, 1)

\* raw_header after lines 147 and 163-165
HeaderOf(content) ==
    IF HeaderEndPos(content) > 1 THEN SubSeq(content, 1, HeaderEndPos(content) - 1)
    ELSE <<>>

\* _parse_header (lines 342-353): header_info['crc32'] after scanning the header lines;
\* the HIICrc32 branch is the last of the elif chain
HeaderCrcLine(line) ==
    /\ ~(Has(line, "Script File Name") /\ Has(line, ":"))
    /\ ~(Has(line, "Created on") /\ Has(line, ":"))
    /\ ~Has(line, "AMISCE Utility")
    /\ Has(line, "HIICrc32")
    /\ Has(line, "=")

RECURSIVE CrcOfLines(_, _)
CrcOfLines(ls, prev) ==
    IF ls = <<>> THEN prev
    ELSE CrcOfLines(Tail(ls),
                    IF HeaderCrcLine(Strip(Head(ls)))
                    THEN Strip(From(Strip(Head(ls)), Find(Strip(Head(ls)), "=", 1) + 1))
                    ELSE prev)

_parse_header(header_content, prev) == CrcOfLines(SplitLines(header_content), prev)

\* re.split on \n(?=Setup Question\s*=): the newline is consumed, the blocks are kept
IsBlockStart(s, i) ==
    /\ s[i] = NL
    /\ i + 1 <= Len(s)
    /\ s[i + 1] = SQ
    /\ SkipWs(s, i + 2) <= Len(s)
    /\ s[SkipWs(s, i + 2)] = "="

RECURSIVE SplitBlocks(_)
SplitBlocks(s) ==
    LET I == {i \in 1..Len(s) : IsBlockStart(s, i)}
    IN  IF I = {} THEN <<s>>
        ELSE <<SubSeq(s, 1, MinOf(I) - 1)>> \o SplitBlocks(From(s, MinOf(I) + 1))

\* [block.strip() for block in setting_blocks if block.strip() and len(block.strip()) > 10]
RECURSIVE KeepBlocks(_)
KeepBlocks(bs) ==
    IF bs = <<>> THEN <<>>
    ELSE (IF Strip(Head(bs)) # <<>> /\ StrLen(Strip(Head(bs))) > 10
          THEN <<Strip(Head(bs))>> ELSE <<>>) \o KeepBlocks(Tail(bs))

\* setting_blocks of parse_file (lines 175-179)
SettingBlocks(content) ==
    KeepBlocks(SplitBlocks(IF HeaderEndPos(content) > 1
                           THEN From(content, HeaderEndPos(content))
                           ELSE content))

\* the loop of lines 189-195 run to its end without cancellation
RECURSIVE ParseBlocks(_)
ParseBlocks(bs) ==
    IF bs = <<>> THEN <<>>
    ELSE _parse_setting_block_optimized(Head(bs)) \o ParseBlocks(Tail(bs))

\* parse_file run to its end without cancellation: the returned settings
ParseSettings(content) == ParseBlocks(SettingBlocks(content))

-----------------------------------------------------------------------------
(* Validator: validate_settings_against_original *)

\* int(value, 0): <<n>>, or <<>> for ValueError
ParseInt0(value) ==
    LET v == Strip(value)
    IN  IF Len(v) = 1 /\ Int0Of(v[1]) >= 0 THEN <<Int0Of(v[1])>>
        ELSE IF Len(v) = 2 /\ v[1] = "-" /\ Int0Of(v[2]) >= 0 THEN <<0 - Int0Of(v[2])>>
        ELSE <<>>

\* star_count of lines 616-619
StarCount(setting) ==
    Cardinality({k \in 1..Len(setting.options) :
                    setting.options[k].value = setting.current_value})

\* the error kinds appended for one setting (lines 607-644), in order
RangeErrors(value, lo, hi) ==
    IF ParseInt0(value) = <<>> THEN <<"NotAnInteger">>
    ELSE IF ~(lo <= ParseInt0(value)[1] /\ ParseInt0(value)[1] <= hi) THEN <<"OutOfRange">>
    ELSE <<>>

SettingErrors(setting) ==
    IF setting.original_has_options /\ setting.options # <<>>
    THEN (IF \A k \in 1..Len(setting.options) :
                 setting.options[k].value # setting.current_value
          THEN <<"NotInOptionSet">> ELSE <<>>)
         \o (IF StarCount(setting) # 1 THEN <<"MultipleOrNoCurrentOption">> ELSE <<>>)
    ELSE IF ~setting.original_has_options
    THEN IF setting.range_min # NoRange /\ setting.range_max # NoRange
         THEN RangeErrors(setting.current_value, setting.range_min, setting.range_max)
         ELSE IF setting.help_string # <<>> /\ RangeMatch(setting.help_string, FALSE) # <<>>
         THEN RangeErrors(setting.current_value,
                          RangeMatch(setting.help_string, FALSE)[1],
                          RangeMatch(setting.help_string, FALSE)[2])
         ELSE <<>>
    ELSE <<>>

\* errors as a list of [token, kind]
RECURSIVE validate_settings_against_original(_)
validate_settings_against_original(setts) ==
    IF setts = <<>> THEN <<>>
    ELSE [k \in 1..Len(SettingErrors(Head(setts))) |->
             [token |-> Head(setts).token, kind |-> SettingErrors(Head(setts))[k]]]
         \o validate_settings_against_original(Tail(setts))

-----------------------------------------------------------------------------
(* Generator: generate_nvram_file *)

DefaultCrc == <<"67B9B44E">>

\* the default header of lines 1806-1810; "<now>" is the formatted datetime.now()
DefaultHeader(crc) ==
    <<"//", " ", "Script File Name", " ", ":", " ", "nvram_import.txt", NL,
      "//", " ", "Created on", " ", "<now>", NL,
      "//", " ", "AMISCE Utility", ".", " ", "Ver", " ", "5.05.01.0002", NL,
      "//", " ", "Copyright (c) 2021 AMI. All rights reserved.", NL,
      "HIICrc32", "=", " ">> \o (IF crc = <<>> THEN DefaultCrc ELSE crc) \o <<NL, NL>>

\* what lines 1802-1810 write
HeaderText(header, crc) == IF header # <<>> THEN header ELSE DefaultHeader(crc)

\* lines 1822-1833: the marker of one line of an option-style block
MarkLine(setting, line) ==
    LET updated_line == RemoveFirst(line, "*")
        line_lower == Lower(updated_line)
        M == {k \in 1..Len(setting.options) :
                 \/ Contains(line_lower, <<"[">> \o setting.options[k].value \o <<"]">>)
                 \/ /\ setting.options[k].desc # <<>>
                    /\ Contains(line_lower, Lower(setting.options[k].desc))}
    IN  IF M # {} /\ setting.options[MinOf(M)].value = setting.current_value
        THEN <<"*">> \o updated_line
        ELSE updated_line

\* f"Value         = <{setting.current_value}>"
ValueLine(value) ==
    <<"Value", " ", " ", " ", " ", " ", " ", " ", " ", " ", "=", " ", "<">> \o value \o <<">">>

\* lines 1838-1842: one line of a block that is not option-style
RewriteValueLine(setting, line) ==
    IF Strip(line) # <<>> /\ Strip(line)[1] = "Value" THEN ValueLine(setting.current_value)
    ELSE line

\* block_lines after lines 1817-1843
GenBlockLines(setting) ==
    IF setting.original_has_options /\ setting.options # <<>>
    THEN [k \in 1..Len(setting.original_block_lines) |->
             MarkLine(setting, setting.original_block_lines[k])]
    ELSE IF ~setting.original_has_options
    THEN [k \in 1..Len(setting.original_block_lines) |->
             RewriteValueLine(setting, setting.original_block_lines[k])]
    ELSE setting.original_block_lines

\* lines 1845-1846: file.write(line.rstrip() + '\n') for every line of the block
WriteBlock(setting) ==
    Concat([k \in 1..Len(GenBlockLines(setting)) |->
               RStrip(GenBlockLines(setting)[k]) \o <<NL>>])

\* the whole file for a settings list that does not change while it is written
GenerateText(header, crc, setts) ==
    HeaderText(header, crc) \o Concat([k \in 1..Len(setts) |-> WriteBlock(setts[k])])

-----------------------------------------------------------------------------
(* ChangeHistory: push_undo / undo / redo *)

max_undo == 30

\* [(s.token, s.current_value) for s in self.settings]
Snapshot(setts) ==
    [k \in 1..Len(setts) |-> [token |-> setts[k].token, value |-> setts[k].current_value]]

\* the mapping token -> current_value of a settings list (dict semantics: last wins)
ValueOf(snap, tok) ==
    snap[CHOOSE k \in 1..Len(snap) :
            snap[k].token = tok /\ \A j \in (k + 1)..Len(snap) : snap[j].token # tok].value

\* a push that never drops a snapshot
PushLimited_Unbounded(stack, snapshot) == Append(stack, snapshot)

\* lines 889-892 and 934-937: append, then keep the last max_undo entries
PushLimited(stack, snapshot) ==
    LET st == Append(stack, snapshot)
    IN  IF Len(st) > max_undo THEN SubSeq(st, Len(st) - max_undo + 1, Len(st)) ELSE st

\* the top of a stack read and left where it is
Pop_Peek(stack) == stack

\* lines 914 and 939: list.pop(), the stack that remains
Pop(stack) == SubSeq(stack, 1, Len(stack) - 1)

\* a snapshot applied to every setting, a token it does not hold getting no value
ApplySnapshot_All(setts, state) ==
    [k \in 1..Len(setts) |->
        [setts[k] EXCEPT !.current_value =
            IF \E j \in 1..Len(state) : state[j].token = setts[k].token
            THEN ValueOf(state, setts[k].token) ELSE <<>>]]

\* lines 915-918 and 940-943: token_to_value = dict(state); assign where the token is known
ApplySnapshot(setts, state) ==
    [k \in 1..Len(setts) |->
        IF \E j \in 1..Len(state) : state[j].token = setts[k].token
        THEN [setts[k] EXCEPT !.current_value = ValueOf(state, setts[k].token)]
        ELSE setts[k]]

-----------------------------------------------------------------------------
(* The widgets of the displayed page and the interactive handlers *)

NoGrab == grab = <<>>

\* a reference to a list object: the settings of one list are shared by every
\* holder of a reference with its id (all empty lists go by id 0)
Ref(id, list) == [id |-> id, list |-> list]

EmptyRef == Ref(0, <<>>)

SyncRef(ref, id, after) == IF ref.id = id THEN [ref EXCEPT !.list = after] ELSE ref

\* _create_combobox_widget, lines 2331-2348: the index of the option the new
\* combobox shows, 1-based: the last option that is flagged is_current or whose
\* value is current_value, the first option when there is none
CurrentIdx(setting) ==
    LET hits == {i \in 1..Len(setting.options) :
                    \/ setting.options[i].is_current
                    \/ setting.options[i].value = setting.current_value}
    IN  IF hits = {} THEN 1 ELSE CHOOSE i \in hits : \A j \in hits : j <= i

\* display_current_page: one widget per setting of self.settings, each bound to
\* its setting object; an entry shows str(current_value), a combobox shows the
\* option of index shown
FreshEntries(ref) ==
    [bound |-> ref,
     shown |-> [k \in 1..Len(ref.list) |->
                   IF ref.list[k].options = <<>> THEN 0 ELSE CurrentIdx(ref.list[k])],
     text |-> [k \in 1..Len(ref.list) |->
                  IF ref.list[k].options = <<>> THEN ref.list[k].current_value ELSE <<>>],
     timer |-> [k \in 1..Len(ref.list) |-> FALSE],
     refresh |-> FALSE]

NoEntries == FreshEntries(EmptyRef)

\* the mapping token -> current_value of a settings list
Mapping(setts) ==
    {<<setts[k].token, ValueOf(Snapshot(setts), setts[k].token)>> : k \in 1..Len(setts)}

\* history variable: an edit changed a value; recorded says whether it pushed a snapshot
HistAfterEdit(h, recorded, after) ==
    LET h1 == [h EXCEPT !.edits = @ + 1]
    IN  IF h.script = "none" THEN h1
        ELSE IF h.script = "edit" /\ recorded
        THEN [h1 EXCEPT !.n = @ + 1, !.Sn = Mapping(after), !.pushes = @ + 1]
        ELSE [h1 EXCEPT !.script = "off", !.off = @ + 1,
                        !.pushes = IF recorded THEN @ + 1 ELSE @]

HistAfterUndo(h) ==
    IF h.script = "none" THEN h
    ELSE IF h.script \in {"edit", "undo"} /\ h.u < h.n
    THEN [h EXCEPT !.script = "undo", !.u = @ + 1]
    ELSE [h EXCEPT !.script = "off", !.off = @ + 1]

HistAfterRedo(h) ==
    IF h.script = "none" THEN h
    ELSE IF ((h.script = "undo" /\ h.u = h.n) \/ h.script = "redo") /\ h.r < h.n
    THEN [h EXCEPT !.script = "redo", !.r = @ + 1, !.pushes = @ + 1]
    ELSE [h EXCEPT !.script = "off", !.off = @ + 1, !.pushes = @ + 1]

NoHist == [script |-> "none", edits |-> 0, n |-> 0, u |-> 0, r |-> 0, off |-> 0,
           pushes |-> 0, S0 |-> {}, Sn |-> {}, absent |-> FALSE]

\* history variable: a snapshot was applied that lacks the token of some setting
HistAfterApply(h, setts, state) ==
    [h EXCEPT !.absent = @ \/ \E k \in 1..Len(setts) :
                                 \A j \in 1..Len(state) : state[j].token # setts[k].token]

\* the setting objects of list id now hold after: self.settings, the parser's
\* list, a list on its way back from parse_file and the list being written all
\* see it when they are that list
Mutate(id, after) ==
    /\ settings' = IF settings_ref = id THEN after ELSE settings
    /\ parser_settings' = SyncRef(parser_settings, id, after)
    /\ loads' = [k \in 1..Len(loads) |-> [loads[k] EXCEPT !.ret = SyncRef(@, id, after)]]
    /\ saver' = [saver EXCEPT !.ref = SyncRef(@, id, after)]
    /\ UNCHANGED settings_ref

\* <<ComboboxSelected>> on the combobox of setting i, option idx chosen
on_combo_select(i, idx) ==
    /\ NoGrab
    /\ i \in 1..Len(entries.bound.list)
    /\ entries.bound.list[i].options # <<>>
    /\ idx \in 1..Len(entries.bound.list[i].options)
    /\ LET W == entries.bound.list
           after == [W EXCEPT ![i].current_value = W[i].options[idx].value]
           changed == W[i].current_value # after[i].current_value
       IN  /\ Mutate(entries.bound.id, after)
           /\ entries' = [entries EXCEPT !.bound.list = after, !.shown[i] = idx]
           /\ invalid_fields' = invalid_fields \ {W[i].token}
           /\ undo_stack' = IF changed THEN PushLimited(undo_stack, Snapshot(settings'))
                            ELSE undo_stack
           /\ redo_stack' = IF changed THEN <<>> ELSE redo_stack
           /\ hist' = IF changed THEN HistAfterEdit(hist, TRUE, settings') ELSE hist
    /\ UNCHANGED <<text, pc, out, reparsed, raw_header, crc32, grab, files>>

\* <KeyRelease> in the entry of setting i, the entry now holding e
on_entry_change(i, e) ==
    /\ NoGrab
    /\ i \in 1..Len(entries.bound.list)
    /\ entries.bound.list[i].options = <<>>
    /\ LET W == entries.bound.list
           after == [W EXCEPT ![i].current_value = e]
       IN  /\ Mutate(entries.bound.id, after)
           /\ entries' = [entries EXCEPT !.bound.list = after, !.text[i] = e,
                                         !.timer[i] = TRUE]
           /\ hist' = IF W[i].current_value # e
                      THEN HistAfterEdit(hist, FALSE, settings') ELSE hist
    /\ UNCHANGED <<text, pc, out, reparsed, raw_header, crc32, undo_stack, redo_stack,
                   invalid_fields, grab, files>>

\* is_valid of _validate_entry_value
EntryIsValid(setting, value) ==
    IF setting.is_numeric \/ setting.range_min # NoRange
    THEN /\ ParseInt0(value) # <<>>
         /\ setting.range_min # NoRange =>
               /\ setting.range_min <= ParseInt0(value)[1]
               /\ ParseInt0(value)[1] <= setting.range_max
    ELSE TRUE

\* _validate_entry_value(setting, entry) with _update_validation_state; fired
\* says that the call is the one the timer of the entry made
_validate_entry_value(i, fired) ==
    LET W == entries.bound.list
        value == Strip(entries.text[i])
        after == [W EXCEPT ![i].current_value = value]
    IN  /\ invalid_fields' = IF EntryIsValid(W[i], value)
                             THEN invalid_fields \ {W[i].token}
                             ELSE invalid_fields \cup {W[i].token}
        /\ Mutate(entries.bound.id, after)
        /\ entries' = [entries EXCEPT !.bound.list = after,
                                      !.timer[i] = IF fired THEN FALSE ELSE @]

\* the 500 ms timer armed by validate_delayed fires
validate_delayed(i) ==
    /\ i \in 1..Len(entries.timer)
    /\ entries.timer[i]
    /\ _validate_entry_value(i, TRUE)
    /\ UNCHANGED <<text, pc, out, reparsed, raw_header, crc32, undo_stack, redo_stack,
                   grab, files, hist>>

\* <FocusOut> of the entry of setting i
on_focus_out(i) ==
    /\ NoGrab
    /\ i \in 1..Len(entries.bound.list)
    /\ entries.bound.list[i].options = <<>>
    /\ _validate_entry_value(i, FALSE)
    /\ UNCHANGED <<text, pc, out, reparsed, raw_header, crc32, undo_stack, redo_stack,
                   grab, files, hist>>

undo ==
    /\ NoGrab
    /\ undo_stack # <<>>
    /\ invalid_fields = {}
    /\ redo_stack' = Append(redo_stack, Snapshot(settings))
    /\ undo_stack' = Pop(undo_stack)
    /\ Mutate(settings_ref, ApplySnapshot(settings, undo_stack[Len(undo_stack)]))
    /\ entries' = [entries EXCEPT !.bound = SyncRef(@, settings_ref, settings'),
                                  !.refresh = TRUE]
    /\ hist' = HistAfterApply(HistAfterUndo(hist), settings, undo_stack[Len(undo_stack)])
    /\ UNCHANGED <<text, pc, out, reparsed, raw_header, crc32, invalid_fields, grab, files>>

redo ==
    /\ NoGrab
    /\ redo_stack # <<>>
    /\ invalid_fields = {}
    /\ undo_stack' = PushLimited(undo_stack, Snapshot(settings))
    /\ redo_stack' = Pop(redo_stack)
    /\ Mutate(settings_ref, ApplySnapshot(settings, redo_stack[Len(redo_stack)]))
    /\ entries' = [entries EXCEPT !.bound = SyncRef(@, settings_ref, settings'),
                                  !.refresh = TRUE]
    /\ hist' = HistAfterApply(HistAfterRedo(hist), settings, redo_stack[Len(redo_stack)])
    /\ UNCHANGED <<text, pc, out, reparsed, raw_header, crc32, invalid_fields, grab, files>>

\* apply_search_and_filters -> display_current_page: by the 300 ms timer armed by
\* on_inline_search_changed, or by the user (search box, page buttons)
display_current_page ==
    /\ entries.refresh \/ NoGrab
    /\ entries' = FreshEntries(Ref(settings_ref, settings))
    /\ entries' # entries
    /\ UNCHANGED <<text, pc, out, reparsed, settings, settings_ref, raw_header, crc32,
                   parser_settings, undo_stack, redo_stack, invalid_fields, loads, saver,
                   grab, files, hist>>

cleanup_max_undo == 20

LastN(stack, k) == IF Len(stack) > k THEN SubSeq(stack, Len(stack) - k + 1, Len(stack)) ELSE stack

\* periodic_cleanup (every 30 s): the stack limits of _optimize_memory_usage
_optimize_memory_usage ==
    /\ undo_stack' = LastN(undo_stack, cleanup_max_undo)
    /\ redo_stack' = LastN(redo_stack, cleanup_max_undo)
    /\ <<undo_stack', redo_stack'>> # <<undo_stack, redo_stack>>
    /\ UNCHANGED <<text, pc, out, reparsed, settings, settings_ref, raw_header, crc32,
                   parser_settings, invalid_fields, entries, loads, saver, grab, files, hist>>

-----------------------------------------------------------------------------
(* Export texts *)

RECURSIVE JoinWith(_, _)
JoinWith(ss, sep) ==
    IF ss = <<>> THEN <<>>
    ELSE IF Len(ss) = 1 THEN ss[1]
    ELSE ss[1] \o sep \o JoinWith(Tail(ss), sep)

Header1 ==
    <<"//", " ", "Script File Name", " ", ":", " ", "nvram.txt", NL,
      "HIICrc32", "=", " ", "1F", NL, NL>>

Header2 == <<"//", " ", "AMISCE Utility", ".", " ", "Ver", " ", "5", NL, NL>>

\* a scalar block laid out the way the generator writes it
BlockFreq ==
    JoinWith(<< <<SQ, " ", "=", " ", "Freq">>,
                <<"Help String", " ", "=", " ", "range", ":", " ", "0", "-", "31">>,
                <<"Token", " ", "=", " ", "01">>,
                ValueLine(<<"5">>) >>, <<NL>>)

\* the same setting in the layout of the firmware tool's export
BlockFreqTab ==
    JoinWith(<< <<SQ, "\t", "=", " ", "Freq">>,
                <<"Token", "\t", "=", "01", "\t", "//", " ", "locked">>,
                <<"Value", "\t", "=", "<", "5", ">">> >>, <<NL>>)

\* a scalar whose exported value lies outside the range of its help string
BlockFreqBad ==
    JoinWith(<< <<SQ, " ", "=", " ", "Freq">>,
                <<"Help String", " ", "=", " ", "range", ":", " ", "0", "-", "31">>,
                <<"Token", " ", "=", " ", "A1">>,
                ValueLine(<<"99">>) >>, <<NL>>)

\* an option-style block with one marker
BlockMode ==
    JoinWith(<< <<SQ, "\t", "=", " ", "Mode">>,
                <<"Token", "\t", "=", "02", "\t", "//", " ", "locked">>,
                <<"Options", "\t", "=", "*", "[", "00", "]", "Auto", "\t", "//", " ", "move">>,
                <<" ", " ", " ", "[", "01", "]", "Enabled">> >>, <<NL>>)

\* an option-style block with the marker on its second option
BlockModeSecond ==
    JoinWith(<< <<SQ, " ", "=", " ", "Mode">>,
                <<"Token", " ", "=", " ", "0A">>,
                <<"Options", " ", "=", " ", "[", "00", "]", "Auto">>,
                <<" ", " ", " ", "*", "[", "01", "]", "Enabled">> >>, <<NL>>)

\* an option-style block without a marker
BlockModeNoMark ==
    JoinWith(<< <<SQ, "\t", "=", " ", "Mode">>,
                <<"Token", "\t", "=", "03">>,
                <<"Options", "\t", "=", "[", "00", "]", "Auto">>,
                <<" ", " ", " ", "[", "01", "]", "Enabled">> >>, <<NL>>)

\* an option-style block whose two options carry the same value
BlockModeDup ==
    JoinWith(<< <<SQ, "\t", "=", " ", "Mode">>,
                <<"Token", "\t", "=", "0A">>,
                <<"Options", "\t", "=", "*", "[", "01", "]", "Auto">>,
                <<" ", " ", " ", "[", "01", "]", "Enabled">> >>, <<NL>>)

\* a 0/1 scalar whose question names enable/disable
BlockBoost ==
    JoinWith(<< <<SQ, " ", "=", " ", "Boost", " ", "Enable">>,
                <<"Token", " ", "=", " ", "1F">>,
                ValueLine(<<"1">>) >>, <<NL>>)

\* a 0/1 scalar whose help string names Enabled and Disabled
BlockBoostHelp ==
    JoinWith(<< <<SQ, " ", "=", " ", "Boost">>,
                <<"Help String", " ", "=", " ", "Enabled", " ", "/", " ", "Disabled">>,
                <<"Token", " ", "=", " ", "31">>,
                ValueLine(<<"1">>) >>, <<NL>>)

\* a block without a Token line
BlockNoToken ==
    JoinWith(<< <<SQ, " ", "=", " ", "Freq">>,
                ValueLine(<<"5">>) >>, <<NL>>)

\* a block without a Setup Question line
BlockNoQuestion ==
    JoinWith(<< <<"Token", " ", "=", " ", "32">>,
                ValueLine(<<"7">>) >>, <<NL>>)

\* an option-style block with two marked lines
BlockModeTwoMarks ==
    JoinWith(<< <<SQ, "\t", "=", " ", "Mode">>,
                <<"Token", "\t", "=", "9">>,
                <<"Options", "\t", "=", "*", "[", "00", "]", "Auto">>,
                <<" ", " ", " ", "*", "[", "01", "]", "Enabled">> >>, <<NL>>)

Blocks == {BlockFreq, BlockFreqTab, BlockFreqBad, BlockMode, BlockModeNoMark, BlockModeDup,
           BlockModeTwoMarks, BlockBoost, BlockBoostHelp, BlockNoToken, BlockNoQuestion}

MaxBlocks == 2

BlockSeqs == UNION {[1..n -> Blocks] : n \in 1..MaxBlocks}

\* header, the blocks separated by sep, and a final newline
Document(header, blocks, sep) == header \o JoinWith(blocks, sep) \o <<NL>>

CodecTexts ==
    {Document(h, bs, sep) : h \in {<<>>, Header1}, bs \in BlockSeqs,
                            sep \in {<<NL>>, <<NL, NL>>}}

\* what the user types into an entry
EntryInputs == {<<"7">>, <<"99">>, <<"7", " ">>, <<"01">>, <<"0x1F">>}

-----------------------------------------------------------------------------
(* The codec alone: parse, edit, render, parse again *)

MaxCodecEdits == 2

NoSaver ==
    [pc |-> "idle", kind |-> "none", ref |-> EmptyRef, j |-> 0, open |-> FALSE,
     cancelled |-> FALSE, runs |-> 0, trail |-> <<>>]
NoFiles == [disk |-> <<>>, saved |-> FALSE, imported |-> FALSE]

InitCodec ==
    /\ text \in CodecTexts
    /\ pc = "init"
    /\ out = <<>>
    /\ reparsed = <<>>
    /\ settings = <<>>
    /\ settings_ref = 0
    /\ raw_header = <<>>
    /\ crc32 = <<>>
    /\ parser_settings = EmptyRef
    /\ undo_stack = <<>>
    /\ redo_stack = <<>>
    /\ invalid_fields = {}
    /\ entries = NoEntries
    /\ loads = <<>>
    /\ saver = NoSaver
    /\ grab = <<>>
    /\ files = NoFiles
    /\ hist = NoHist

\* parse_file run to its end, and the page displayed
CodecParse ==
    /\ pc = "init"
    /\ pc' = "parsed"
    /\ raw_header' = HeaderOf(text)
    /\ crc32' = _parse_header(HeaderOf(text), crc32)
    /\ parser_settings' = Ref(1, ParseSettings(text))
    /\ settings' = parser_settings'.list
    /\ settings_ref' = parser_settings'.id
    /\ entries' = FreshEntries(parser_settings')
    /\ UNCHANGED <<text, out, reparsed, undo_stack, redo_stack, invalid_fields, loads,
                   saver, grab, files, hist>>

\* generate_nvram_file run to its end
CodecRender ==
    /\ pc = "parsed"
    /\ pc' = "rendered"
    /\ out' = GenerateText(raw_header, crc32, settings)
    /\ UNCHANGED <<text, reparsed, settings, settings_ref, raw_header, crc32,
                   parser_settings, undo_stack, redo_stack, invalid_fields, entries, loads,
                   saver, grab, files, hist>>

\* the written file parsed again
CodecReparse ==
    /\ pc = "rendered"
    /\ pc' = "reparsed"
    /\ reparsed' = ParseSettings(out)
    /\ UNCHANGED <<text, out, settings, settings_ref, raw_header, crc32, parser_settings,
                   undo_stack, redo_stack, invalid_fields, entries, loads, saver, grab,
                   files, hist>>

CodecEdit ==
    /\ pc = "parsed"
    /\ hist.edits < MaxCodecEdits
    /\ \/ \E i \in 1..Len(settings) : \E idx \in 1..Len(settings[i].options) :
             on_combo_select(i, idx)
       \/ \E i \in 1..Len(settings) : \E e \in EntryInputs : on_entry_change(i, e)

CodecValidate ==
    /\ pc = "parsed"
    /\ \E i \in 1..Len(settings) : validate_delayed(i) \/ on_focus_out(i)

NextCodec ==
    \/ CodecParse
    \/ CodecEdit
    \/ CodecValidate
    \/ CodecRender
    \/ CodecReparse

SpecCodec == InitCodec /\ [][NextCodec]_vars

-----------------------------------------------------------------------------
(* Properties of the codec *)

\* C1 (round-trip identity): a text that is parsed and then rendered with no
\* edit in between is rendered byte-for-byte as it was read.
C1_RoundTripIdentity ==
    (pc = "rendered" /\ hist.edits = 0 /\ settings = ParseSettings(text)) => out = text

\* where the blocks of a text begin: the first "Setup Question" and every split point
BlockStartsOf(content) ==
    {i \in 1..Len(content) :
        /\ content[i] = SQ
        /\ i = HeaderEndPos(content) \/ (i > 1 /\ IsBlockStart(content, i - 1))}

\* the last position of the block that begins at i
SpanEnd(content, i) ==
    LET later == {j \in BlockStartsOf(content) : j > i}
    IN  IF later = {} THEN Len(content) ELSE MinOf(later) - 1

YieldsSetting(content, i) ==
    LET b == Strip(SubSeq(content, i, SpanEnd(content, i)))
    IN  StrLen(b) > 10 /\ _parse_setting_block_optimized(b) # <<>>

\* where the block of the k-th parsed setting begins
SettingStart(content, k) ==
    LET Y == {i \in BlockStartsOf(content) : YieldsSetting(content, i)}
    IN  CHOOSE i \in Y : Cardinality({j \in Y : j < i}) = k - 1

\* rendered differs from content at most between the first and last position of
\* the block of the k-th setting
OnlyInsideBlock(content, rendered, k) ==
    LET st == SettingStart(content, k)
        en == SpanEnd(content, st)
        tail == Len(content) - en
    IN  /\ Len(rendered) >= (st - 1) + tail
        /\ SubSeq(rendered, 1, st - 1) = SubSeq(content, 1, st - 1)
        /\ SubSeq(rendered, Len(rendered) - tail + 1, Len(rendered))
              = SubSeq(content, en + 1, Len(content))

\* the settings whose current_value is not the parsed one
ChangedSettings ==
    {k \in 1..Len(settings) : settings[k].current_value # ParseSettings(text)[k].current_value}

\* C2 (minimal diff): after exactly one setting's current_value was changed, the
\* rendered text differs from the parsed text only inside that setting's block.
C2_MinimalDiff ==
    (pc = "rendered" /\ Cardinality(ChangedSettings) = 1)
        => OnlyInsideBlock(text, out, CHOOSE k \in ChangedSettings : TRUE)

\* every edit made so far was accepted: nothing is flagged, no entry awaits its
\* validation, and the validator has no complaint
ValidEdits ==
    /\ invalid_fields = {}
    /\ \A i \in 1..Len(entries.timer) : ~entries.timer[i]
    /\ validate_settings_against_original(settings) = <<>>

\* C3 (round trip under edits): parsing the text rendered from an edited
\* document gives the token -> current_value mapping of that document.
C3_RoundTripUnderEdits ==
    (pc = "reparsed" /\ ValidEdits) => Mapping(reparsed) = Mapping(settings)

Reported(setts, tok, kind) ==
    \E k \in 1..Len(validate_settings_against_original(setts)) :
        validate_settings_against_original(setts)[k] = [token |-> tok, kind |-> kind]

\* C10 (exactly one current): for a setting with options the validator reports
\* MultipleOrNoCurrentOption exactly when the number of options whose value
\* equals current_value is not 1.
C10_ExactlyOneCurrent ==
    \A k \in 1..Len(settings) :
        settings[k].options # <<>> =>
            (Reported(<<settings[k]>>, settings[k].token, "MultipleOrNoCurrentOption")
                <=> StarCount(settings[k]) # 1)

\* the integer a value denotes when read as decimal digits or as 0x-prefixed hex
DecimalOrHex(value) ==
    LET v == Strip(value)
    IN  IF Len(v) = 1 /\ v[1] \in DigitWords THEN <<DecOf(v[1])>>
        ELSE IF Len(v) = 1 /\ v[1] \in {"0x1F", "0x40"} THEN <<Int0Of(v[1])>>
        ELSE <<>>

HasRange(setting) == setting.range_min # NoRange /\ setting.range_max # NoRange

\* C11 (range check): for a scalar setting whose range is known the validator
\* reports OutOfRange exactly when the decimal or 0x-hex integer of current_value
\* lies outside [range_min, range_max], and NotAnInteger exactly when
\* current_value is no such integer.
C11_RangeCheck ==
    \A k \in 1..Len(settings) :
        (settings[k].options = <<>> /\ HasRange(settings[k])) =>
            LET p == DecimalOrHex(settings[k].current_value)
                inside == /\ p # <<>>
                          /\ settings[k].range_min <= p[1]
                          /\ p[1] <= settings[k].range_max
            IN  /\ Reported(<<settings[k]>>, settings[k].token, "OutOfRange")
                      <=> (p # <<>> /\ ~inside)
                /\ Reported(<<settings[k]>>, settings[k].token, "NotAnInteger")
                      <=> (p = <<>>)

\* a setting read from a block without bracketed option lines
ScalarBlock(setting) ==
    \A l \in 1..Len(setting.original_block_lines) :
        ~Has(setting.original_block_lines[l], "[")

\* "enabled" and "disabled" both occur in the text, whatever the case
NamesBoth(txt) ==
    /\ \E i \in 1..Len(txt) : LowerTok(txt[i]) = "enabled"
    /\ \E i \in 1..Len(txt) : LowerTok(txt[i]) = "disabled"

\* C12 (boolean synthesis): a scalar block whose Value is 0 or 1 and whose help
\* or question text contains both "enabled" and "disabled" parses to the options
\* ("1","Enabled",value=1), ("0","Disabled",value=0) with is_numeric false; every
\* other pure-integer scalar parses to is_numeric true with no options.
C12_BooleanSynthesis ==
    (pc = "parsed" /\ hist.edits = 0) =>
        \A k \in 1..Len(settings) :
            LET s == settings[k]
            IN  (ScalarBlock(s) /\ IsDigit(s.current_value)) =>
                    IF /\ s.current_value \in {<<"0">>, <<"1">>}
                       /\ NamesBoth(s.help_string) \/ NamesBoth(s.setup_question)
                    THEN /\ s.options =
                               << [value |-> <<"1">>, desc |-> <<"Enabled">>,
                                   is_current |-> s.current_value = <<"1">>],
                                  [value |-> <<"0">>, desc |-> <<"Disabled">>,
                                   is_current |-> s.current_value = <<"0">>] >>
                         /\ ~s.is_numeric
                    ELSE s.is_numeric /\ s.options = <<>>

\* a block that lacks its Token line or its Setup Question line
Malformed(b) == b \in {BlockNoToken, BlockNoQuestion}

\* the sequence without its m-th element
Without(bs, m) == SubSeq(bs, 1, m - 1) \o SubSeq(bs, m + 1, Len(bs))

\* C13 (malformed-block tolerance): when one block of a document lacks its Token
\* or its question, that block is dropped, the other blocks are parsed exactly
\* as they are without it, and the result has totalBlocks - 1 settings.  Blocks
\* are taken as separated by a blank line when the malformed one has no question.
C13_MalformedBlockTolerance ==
    (pc = "parsed" /\ hist.edits = 0) =>
        \A h \in {<<>>, Header1} : \A bs \in BlockSeqs : \A sep \in {<<NL>>, <<NL, NL>>} :
            \A m \in 1..Len(bs) :
                ( /\ text = Document(h, bs, sep)
                  /\ Len(bs) > 1
                  /\ Malformed(bs[m])
                  /\ \A j \in 1..Len(bs) : j # m => ~Malformed(bs[j])
                  /\ bs[m] = BlockNoQuestion => sep = <<NL, NL>> )
                =>  /\ Len(settings) = Len(bs) - 1
                    /\ settings = ParseSettings(Document(h, Without(bs, m), sep))

\* C14 (token invariant): in every document every setting has a non-empty token
\* and no two settings share a token.
C14_TokenInvariant ==
    \A i \in 1..Len(settings) :
        /\ settings[i].token # ""
        /\ \A j \in 1..Len(settings) : j # i => settings[j].token # settings[i].token

\* C15 (option invariant): in every state each setting with a non-empty option
\* list has exactly one option whose value equals its current_value.
C15_OptionInvariant ==
    \A k \in 1..Len(settings) :
        settings[k].options # <<>> =>
            Cardinality({o \in 1..Len(settings[k].options) :
                            settings[k].options[o].value = settings[k].current_value}) = 1

\* C16 (range invariant): in every state, each keystroke included, the
\* current_value of a setting whose range is set is a decimal or 0x-hex integer
\* within [range_min, range_max]; a rejected input never becomes current_value.
C16_RangeInvariant ==
    \A k \in 1..Len(settings) :
        HasRange(settings[k]) =>
            /\ DecimalOrHex(settings[k].current_value) # <<>>
            /\ settings[k].range_min <= DecimalOrHex(settings[k].current_value)[1]
            /\ DecimalOrHex(settings[k].current_value)[1] <= settings[k].range_max

\* the settings whose current_value the step changes
Edited == {k \in 1..Len(settings) : settings'[k].current_value # settings[k].current_value}

\* C18 (every edit recorded): each interactive edit that changes a current_value,
\* through a dropdown or through an entry field, pushes exactly one snapshot onto
\* the undo stack.
C18_EveryEditRecorded ==
    [][(pc = "parsed" /\ hist'.edits = hist.edits + 1)
          => /\ Len(undo_stack') = Len(undo_stack) + 1
             /\ SubSeq(undo_stack', 1, Len(undo_stack)) = undo_stack]_vars

\* gen carries the marker on exactly one line, the one with the bracketed value,
\* and leaves the lines of orig that hold no bracket as they are
MarkerOnValue(orig, gen, value) ==
    LET marked == {l \in 1..Len(gen) : Has(gen[l], "*")}
    IN  /\ Len(gen) = Len(orig)
        /\ Cardinality(marked) = 1
        /\ \A l \in marked : Contains(gen[l], <<"[">> \o value \o <<"]">>)
        /\ \A l \in 1..Len(orig) : ~Has(orig[l], "[") => gen[l] = orig[l]

\* C19 (marker rewrite): when the current_value of a setting parsed from bracketed
\* option lines was changed, its rendered block carries the marker on exactly
\* one option line, the one whose bracketed value is the new current_value, and
\* the lines that are not option lines are unchanged.
C19_MarkerRewrite ==
    pc = "rendered" =>
        \A k \in ChangedSettings :
            ~ScalarBlock(settings[k]) =>
                MarkerOnValue(settings[k].original_block_lines,
                              GenBlockLines(settings[k]), settings[k].current_value)

\* the lines of a block as they were read, each with its newline
Verbatim(lines) == Concat([l \in 1..Len(lines) |-> lines[l] \o <<NL>>])

\* C20 (unchanged settings verbatim): for every setting whose current_value is
\* the one parsed for it, the generator writes its original_block_lines
\* byte-identical: no reformatted Value line, no moved marker, no whitespace change.
C20_UnchangedVerbatim ==
    pc = "rendered" =>
        \A k \in (1..Len(settings)) \ ChangedSettings :
            WriteBlock(settings[k]) = Verbatim(settings[k].original_block_lines)

\* the line with the text between its "<" and ">" replaced by value
PayloadReplaced(line, value) ==
    LET a == Find(line, "<", 1)
        b == Find(line, ">", a)
    IN  IF a = 0 \/ b = 0 THEN line
        ELSE SubSeq(line, 1, a) \o value \o SubSeq(line, b, Len(line))

BeginsWithValue(line) == Strip(line) # <<>> /\ Strip(line)[1] = "Value"

\* C21 (scalar rewrite is line-local): when the current_value of a Value-style
\* setting was changed, the generator replaces only the bracketed payload of the
\* line that begins with Value, keeps the text of that line before the bracket
\* as it was read, and leaves every other line of the block as it was.
C21_ScalarRewriteLineLocal ==
    pc = "rendered" =>
        \A k \in ChangedSettings :
            ScalarBlock(settings[k]) =>
                LET orig == settings[k].original_block_lines
                    gen == GenBlockLines(settings[k])
                IN  /\ Len(gen) = Len(orig)
                    /\ \A l \in 1..Len(orig) :
                          gen[l] = IF BeginsWithValue(orig[l])
                                   THEN PayloadReplaced(orig[l], settings[k].current_value)
                                   ELSE orig[l]

\* the lines of the block of a setting that carry the marker
MarkedLines(setting) ==
    {l \in 1..Len(setting.original_block_lines) : Has(setting.original_block_lines[l], "*")}

ViolationKinds == {"NotInOptionSet", "MultipleOrNoCurrentOption", "OutOfRange", "NotAnInteger"}

\* C23 (multiple markers): a block with more than one marked option line is
\* still parsed into its setting, and the validator reports a violation for
\* that setting.
C23_MultipleMarkersSurfaced ==
    (pc = "parsed" /\ hist.edits = 0) =>
        /\ \A h \in {<<>>, Header1} : \A sep \in {<<NL>>, <<NL, NL>>} :
              text = Document(h, <<BlockModeTwoMarks>>, sep) => Len(settings) = 1
        /\ \A k \in 1..Len(settings) :
              Cardinality(MarkedLines(settings[k])) > 1 =>
                  \E kind \in ViolationKinds :
                      Reported(<<settings[k]>>, settings[k].token, kind)

\* C24 (default current value): a parsed setting with options never has an empty
\* current_value; when neither a Value line nor a marker gave one, it is the
\* value of the first option in file order.
C24_DefaultCurrentValue ==
    (pc = "parsed" /\ hist.edits = 0) =>
        \A k \in 1..Len(settings) :
            LET s == settings[k]
            IN  s.options # <<>> =>
                    /\ s.current_value # <<>>
                    /\ ( /\ MarkedLines(s) = {}
                         /\ \A l \in 1..Len(s.original_block_lines) :
                               ~BeginsWithValue(s.original_block_lines[l]) )
                       => s.current_value = s.options[1].value

-----------------------------------------------------------------------------
(* The change history: a loaded document, option edits, undo, redo *)

MaxHistoryEdits == 32
MaxOffScript == 2

HistoryInputs == {<<"7">>}

HistoryTexts ==
    {Document(Header1, <<BlockMode>>, <<NL>>),
     Document(Header1, <<BlockModeSecond>>, <<NL>>),
     Document(Header1, <<BlockBoost>>, <<NL>>),
     Document(Header1, <<BlockFreq, BlockMode>>, <<NL>>)}

\* a document loaded and displayed, nothing edited yet
InitHistory ==
    /\ text \in HistoryTexts
    /\ pc = "history"
    /\ out = <<>>
    /\ reparsed = <<>>
    /\ settings = ParseSettings(text)
    /\ settings_ref = 1
    /\ raw_header = HeaderOf(text)
    /\ crc32 = _parse_header(HeaderOf(text), <<>>)
    /\ parser_settings = Ref(1, settings)
    /\ undo_stack = <<>>
    /\ redo_stack = <<>>
    /\ invalid_fields = {}
    /\ entries = FreshEntries(Ref(1, settings))
    /\ loads = <<>>
    /\ saver = NoSaver
    /\ grab = <<>>
    /\ files = NoFiles
    /\ hist = [NoHist EXCEPT !.script = "edit", !.S0 = Mapping(settings),
                             !.Sn = Mapping(settings)]

HistoryEdit ==
    /\ hist.edits < MaxHistoryEdits
    /\ \E i \in 1..Len(settings) : \E idx \in 1..Len(settings[i].options) :
          on_combo_select(i, idx)
    /\ hist'.off <= MaxOffScript

\* a value typed into an entry field of the page
HistoryEntryEdit ==
    /\ hist.edits < MaxHistoryEdits
    /\ \E i \in 1..Len(settings) : \E e \in HistoryInputs : on_entry_change(i, e)
    /\ hist'.off <= MaxOffScript

HistoryUndo == undo /\ hist'.off <= MaxOffScript

HistoryRedo == redo /\ hist'.off <= MaxOffScript

NextHistory ==
    \/ HistoryEdit
    \/ HistoryEntryEdit
    \/ HistoryUndo
    \/ HistoryRedo
    \/ display_current_page
    \/ _optimize_memory_usage

SpecHistory == InitHistory /\ [][NextHistory]_vars

\* C5 (undo/redo round trip): after n recorded edits from S0, n undos restore
\* the mapping of S0, and n redos then restore the mapping that held after the
\* last edit.
C5_UndoRedoRoundTrip ==
    /\ (hist.script = "undo" /\ hist.u = hist.n /\ hist.n <= max_undo)
          => Mapping(settings) = hist.S0
    /\ (hist.script = "redo" /\ hist.r = hist.n /\ hist.n <= max_undo)
          => Mapping(settings) = hist.Sn

\* C6 (bounded history): the undo stack never holds more than max_undo
\* snapshots, and a push onto a full stack drops the oldest snapshot and keeps
\* the most recent ones in order.
C6_BoundedHistory ==
    /\ [](Len(undo_stack) <= max_undo)
    /\ [][hist'.pushes = hist.pushes + 1 =>
            /\ undo_stack' # <<>>
            /\ undo_stack' = LastN(Append(undo_stack, undo_stack'[Len(undo_stack')]), max_undo)
            /\ undo_stack'[Len(undo_stack')] = Snapshot(IF hist'.edits = hist.edits
                                                        THEN settings ELSE settings')]_vars

\* a push found the undo stack full
C6_Witness == hist.pushes > max_undo /\ Len(undo_stack) = max_undo

\* the (token, current_value) pairs of the settings, in list order
TokenValuePairs(setts) ==
    [k \in 1..Len(setts) |-> [token |-> setts[k].token, value |-> setts[k].current_value]]

\* C25 (a snapshot invalidates the redo branch): right after every push_undo the
\* redo stack is empty and the top of the undo stack pairs every setting's token
\* with its current_value of that instant; and right after any fresh edit the
\* redo stack is empty, so that redo() has nothing to replay.
C25_SnapshotInvalidatesRedo ==
    [][hist'.edits = hist.edits + 1 =>
          /\ redo_stack' = <<>>
          /\ hist'.pushes = hist.pushes + 1 =>
                /\ undo_stack' # <<>>
                /\ undo_stack'[Len(undo_stack')] = TokenValuePairs(settings')]_vars

\* C30 (combined history bound): the two stacks never hold more than 30
\* snapshots between them, so the redo stack is bounded too, and the size cap
\* inside redo() never discards a snapshot: every redo() leaves the undo stack
\* one snapshot longer, with all it held before.
C30_CombinedHistoryBound ==
    /\ [](Len(undo_stack) + Len(redo_stack) <= max_undo)
    /\ [][(hist'.pushes = hist.pushes + 1 /\ hist'.edits = hist.edits) =>
            /\ Len(undo_stack') = Len(undo_stack) + 1
            /\ SubSeq(undo_stack', 1, Len(undo_stack)) = undo_stack]_vars

\* redo() has refilled the undo stack to max_undo snapshots
C30_Witness == Len(undo_stack) = max_undo /\ hist.script = "redo" /\ hist.r = max_undo

\* the option the combobox of setting k shows has the value of current_value
ShowsCurrent(ent, k) ==
    LET setting == ent.bound.list[k]
    IN  /\ ent.shown[k] \in 1..Len(setting.options)
        /\ setting.options[ent.shown[k]].value = setting.current_value

\* C29 (displayed selection matches the model): whenever the widgets of the page
\* are created or re-created, every combobox shows the option whose value is the
\* setting's current_value, also after the setting was edited, undone or redone;
\* a stale is_current flag does not decide what is shown.
C29_DisplayedSelection ==
    [][(entries' # entries /\ entries' = FreshEntries(entries'.bound)) =>
          \A k \in 1..Len(entries'.bound.list) :
              entries'.bound.list[k].options # <<>> => ShowsCurrent(entries', k)]_vars

-----------------------------------------------------------------------------
(* A session of the editor: loads, edits and the two write paths *)

MaxEdits == 1
MaxSaves == 1

FileA == Document(Header1, <<BlockFreqBad, BlockMode>>, <<NL>>)
FileB == Document(Header2, <<BlockFreqTab>>, <<NL>>)

\* the files the user opens, in this order
SessionTexts == <<FileA, FileB>>

MaxLoads == Len(SessionTexts)

\* what the user types into an entry
SessionInputs == {<<"7", " ">>}

\* the blocks a settings list was parsed from
DocOf(setts) == [k \in 1..Len(setts) |-> setts[k].original_block_lines]

LoadDialog(k) == <<[w |-> "load", k |-> k]>>
SaveDialog == <<[w |-> "save", k |-> 0]>>
ModalDialog == <<[w |-> "modal", k |-> 0]>>

\* the grab after window w was destroyed
Released(w) == IF grab = w THEN <<>> ELSE grab

\* the write path back at rest
IdleSaver == [NoSaver EXCEPT !.runs = saver.runs]

\* EnhancedBIOSSettingsGUI.__init__
Init ==
    /\ text = <<>>
    /\ pc = "gui"
    /\ out = <<>>
    /\ reparsed = <<>>
    /\ settings = <<>>
    /\ settings_ref = 0
    /\ raw_header = <<>>
    /\ crc32 = <<>>
    /\ parser_settings = EmptyRef
    /\ undo_stack = <<>>
    /\ redo_stack = <<>>
    /\ invalid_fields = {}
    /\ entries = NoEntries
    /\ loads = <<>>
    /\ saver = NoSaver
    /\ grab = <<>>
    /\ files = NoFiles
    /\ hist = NoHist

\* load_file_dialog -> load_file: the load_worker thread is started
load_file ==
    /\ pc = "gui"
    /\ NoGrab
    /\ Len(loads) < MaxLoads
    /\ \E f \in {SessionTexts[Len(loads) + 1]} :
          loads' = Append(loads,
                          [file |-> f, pc |-> "start", open |-> FALSE, cancelled |-> FALSE,
                           i |-> 0, processed |-> <<>>, ret |-> EmptyRef,
                           before |-> [doc |-> DocOf(settings), raw_header |-> raw_header],
                           solo |-> \A j \in 1..Len(loads) : loads[j].pc = "done"])
    /\ UNCHANGED <<text, pc, out, reparsed, settings, settings_ref, raw_header, crc32,
                   parser_settings, undo_stack, redo_stack, invalid_fields, entries, saver,
                   grab, files, hist>>

\* load_worker: progress = ProgressDialog(...), which takes the grab, and
\* parse_file, lines 146-149
load_dialog(k) ==
    /\ loads[k].pc = "start"
    /\ loads' = [loads EXCEPT ![k].pc = "header", ![k].open = TRUE]
    /\ grab' = LoadDialog(k)
    /\ parser_settings' = EmptyRef
    /\ raw_header' = <<>>
    /\ UNCHANGED <<text, pc, out, reparsed, settings, settings_ref, crc32, undo_stack,
                   redo_stack, invalid_fields, entries, saver, files, hist>>

\* parse_file, lines 163-169: the header, then the first look at cancel_flag
parse_header(k) ==
    /\ loads[k].pc = "header"
    /\ loads' = IF loads[k].cancelled
                THEN [loads EXCEPT ![k].pc = "assign", ![k].ret = EmptyRef]
                ELSE [loads EXCEPT ![k].pc = "loop", ![k].i = 1]
    /\ raw_header' = IF HeaderEndPos(loads[k].file) > 1 THEN HeaderOf(loads[k].file)
                     ELSE raw_header
    /\ crc32' = IF HeaderEndPos(loads[k].file) > 1
                THEN _parse_header(HeaderOf(loads[k].file), crc32) ELSE crc32
    /\ UNCHANGED <<text, pc, out, reparsed, settings, settings_ref, parser_settings,
                   undo_stack, redo_stack, invalid_fields, entries, saver, grab, files, hist>>

\* parse_file, lines 189-195: one iteration of the loop
parse_block(k) ==
    /\ loads[k].pc = "loop"
    /\ ~loads[k].cancelled
    /\ loads[k].i <= Len(SettingBlocks(loads[k].file))
    /\ loads' = [loads EXCEPT
                    ![k].processed =
                        @ \o _parse_setting_block_optimized(SettingBlocks(loads[k].file)[loads[k].i]),
                    ![k].i = @ + 1]
    /\ UNCHANGED <<text, pc, out, reparsed, settings, settings_ref, raw_header, crc32,
                   parser_settings, undo_stack, redo_stack, invalid_fields, entries, saver,
                   grab, files, hist>>

\* parse_file, the loop left (at its end or by break) and line 212
parse_install(k) ==
    /\ loads[k].pc = "loop"
    /\ loads[k].cancelled \/ loads[k].i > Len(SettingBlocks(loads[k].file))
    /\ parser_settings' = Ref(k, loads[k].processed)
    /\ loads' = [loads EXCEPT ![k].pc = "return", ![k].processed = <<>>]
    /\ UNCHANGED <<text, pc, out, reparsed, settings, settings_ref, raw_header, crc32,
                   undo_stack, redo_stack, invalid_fields, entries, saver, grab, files, hist>>

\* parse_file, line 221: return self.settings
parse_return(k) ==
    /\ loads[k].pc = "return"
    /\ loads' = [loads EXCEPT ![k].pc = "assign", ![k].ret = parser_settings]
    /\ UNCHANGED <<text, pc, out, reparsed, settings, settings_ref, raw_header, crc32,
                   parser_settings, undo_stack, redo_stack, invalid_fields, entries, saver,
                   grab, files, hist>>

\* load_worker, lines 1462-1473: self.settings = <what parse_file returned>,
\* then return if cancelled, else schedule finalize_load
load_assign(k) ==
    /\ loads[k].pc = "assign"
    /\ settings' = loads[k].ret.list
    /\ settings_ref' = loads[k].ret.id
    /\ loads' = [loads EXCEPT ![k].pc = IF loads[k].cancelled THEN "done" ELSE "finalize",
                              ![k].ret = EmptyRef]
    /\ UNCHANGED <<text, pc, out, reparsed, raw_header, crc32, parser_settings, undo_stack,
                   redo_stack, invalid_fields, entries, saver, grab, files, hist>>

\* finalize_load on the main thread: display_current_page, progress.close
finalize_load(k) ==
    /\ loads[k].pc = "finalize"
    /\ entries' = FreshEntries(Ref(settings_ref, settings))
    /\ loads' = [loads EXCEPT ![k].pc = "done", ![k].open = FALSE]
    /\ grab' = Released(LoadDialog(k))
    /\ UNCHANGED <<text, pc, out, reparsed, settings, settings_ref, raw_header, crc32,
                   parser_settings, undo_stack, redo_stack, invalid_fields, saver, files,
                   hist>>

\* ProgressDialog.cancel of the dialog of load k
load_cancel(k) ==
    /\ loads[k].open
    /\ grab \in {<<>>, LoadDialog(k)}
    /\ loads' = [loads EXCEPT ![k].cancelled = TRUE, ![k].open = FALSE]
    /\ grab' = <<>>
    /\ UNCHANGED <<text, pc, out, reparsed, settings, settings_ref, raw_header, crc32,
                   parser_settings, undo_stack, redo_stack, invalid_fields, entries, saver,
                   files, hist>>

\* save_file_only up to the file dialog
save_file_only ==
    /\ pc = "gui"
    /\ NoGrab
    /\ saver.pc = "idle"
    /\ saver.runs < MaxSaves
    /\ settings # <<>>
    /\ invalid_fields = {}
    /\ saver' = [NoSaver EXCEPT !.pc = "filedialog", !.kind = "save", !.runs = saver.runs + 1,
                                !.trail = <<"check">>]
    /\ grab' = ModalDialog
    /\ UNCHANGED <<text, pc, out, reparsed, settings, settings_ref, raw_header, crc32,
                   parser_settings, undo_stack, redo_stack, invalid_fields, entries, loads,
                   files, hist>>

\* asksaveasfilename returns: with a path the save_worker thread is started
save_path_chosen ==
    /\ saver.pc = "filedialog"
    /\ \E chosen \in BOOLEAN :
          saver' = IF chosen THEN [saver EXCEPT !.pc = "spawned"] ELSE IdleSaver
    /\ grab' = Released(ModalDialog)
    /\ UNCHANGED <<text, pc, out, reparsed, settings, settings_ref, raw_header, crc32,
                   parser_settings, undo_stack, redo_stack, invalid_fields, entries, loads,
                   files, hist>>

\* changes of show_change_review_dialog: str(orig_value) != str(curr_value)
ReviewChanges(setts) ==
    {k \in 1..Len(setts) : setts[k].original_value # setts[k].current_value}

\* save_and_import_bios_with_review up to the review dialog
save_and_import_bios_with_review ==
    /\ pc = "gui"
    /\ NoGrab
    /\ saver.pc = "idle"
    /\ saver.runs < MaxSaves
    /\ invalid_fields = {}
    /\ ReviewChanges(settings) # {}
    /\ saver' = [NoSaver EXCEPT !.pc = "review", !.kind = "import", !.runs = saver.runs + 1,
                                !.trail = <<"check">>]
    /\ grab' = ModalDialog
    /\ UNCHANGED <<text, pc, out, reparsed, settings, settings_ref, raw_header, crc32,
                   parser_settings, undo_stack, redo_stack, invalid_fields, entries, loads,
                   files, hist>>

\* the review dialog answered; on yes the validator runs, then save_and_import_bios
\* up to its confirmation dialog
review_answered ==
    /\ saver.pc = "review"
    /\ \E yes \in BOOLEAN :
          IF yes /\ validate_settings_against_original(settings) = <<>> /\ settings # <<>>
          THEN /\ saver' = [saver EXCEPT !.pc = "confirm",
                                         !.trail = @ \o <<"review", "validate">>]
               /\ grab' = grab
          ELSE saver' = IdleSaver /\ grab' = Released(ModalDialog)
    /\ UNCHANGED <<text, pc, out, reparsed, settings, settings_ref, raw_header, crc32,
                   parser_settings, undo_stack, redo_stack, invalid_fields, entries, loads,
                   files, hist>>

\* the confirmation answered: on yes the import_worker thread is started
confirm_answered ==
    /\ saver.pc = "confirm"
    /\ \E yes \in BOOLEAN :
          saver' = IF yes THEN [saver EXCEPT !.pc = "spawned", !.trail = Append(@, "confirm")]
                   ELSE IdleSaver
    /\ grab' = Released(ModalDialog)
    /\ UNCHANGED <<text, pc, out, reparsed, settings, settings_ref, raw_header, crc32,
                   parser_settings, undo_stack, redo_stack, invalid_fields, entries, loads,
                   files, hist>>

\* save_worker / import_worker: progress = ProgressDialog(...), which takes the
\* grab; then generate_nvram_file is invoked: the file opened for writing, lines
\* 1802-1810 and the list of line 1812 taken
generate_header ==
    /\ saver.pc = "spawned"
    /\ saver' = [saver EXCEPT !.pc = "blocks", !.open = TRUE,
                              !.ref = Ref(settings_ref, settings), !.j = 1]
    /\ grab' = SaveDialog
    /\ files' = [files EXCEPT !.disk = HeaderText(raw_header, crc32), !.saved = FALSE]
    /\ UNCHANGED <<text, pc, out, reparsed, settings, settings_ref, raw_header, crc32,
                   parser_settings, undo_stack, redo_stack, invalid_fields, entries, loads,
                   hist>>

\* generate_nvram_file, lines 1812-1846: one setting written
generate_block ==
    /\ saver.pc = "blocks"
    /\ saver.j <= Len(saver.ref.list)
    /\ saver' = [saver EXCEPT !.j = @ + 1]
    /\ files' = [files EXCEPT !.disk = @ \o WriteBlock(saver.ref.list[saver.j])]
    /\ UNCHANGED <<text, pc, out, reparsed, settings, settings_ref, raw_header, crc32,
                   parser_settings, undo_stack, redo_stack, invalid_fields, entries, loads,
                   grab, hist>>

\* the tool run whatever generate_nvram_file returned
ToolInvoked_Always(generated, kind) == kind = "import"

\* lines 1371-1381: import_worker returns when generate_nvram_file returned False,
\* and runs SCEWIN_64.exe /i /s nvram_import.txt otherwise; save_worker has no tool
ToolInvoked(generated, kind) == generated /\ kind = "import"

\* generate_nvram_file returns True; save_worker closes its dialog, import_worker
\* runs SCEWIN_64.exe /i /s nvram_import.txt (lines 1376-1386) and closes its dialog
generate_done ==
    /\ saver.pc = "blocks"
    /\ saver.j > Len(saver.ref.list)
    /\ files' = [files EXCEPT !.saved = TRUE,
                              !.imported = @ \/ ToolInvoked(TRUE, saver.kind)]
    /\ saver' = IdleSaver
    /\ grab' = Released(SaveDialog)
    /\ UNCHANGED <<text, pc, out, reparsed, settings, settings_ref, raw_header, crc32,
                   parser_settings, undo_stack, redo_stack, invalid_fields, entries, loads,
                   hist>>

\* generate_nvram_file, lines 1850-1855: a write raised, the error is shown and
\* False returned; the worker closes its dialog
generate_fail ==
    /\ saver.pc = "blocks"
    /\ files' = [files EXCEPT !.imported = @ \/ ToolInvoked(FALSE, saver.kind)]
    /\ saver' = IdleSaver
    /\ grab' = Released(SaveDialog)
    /\ UNCHANGED <<text, pc, out, reparsed, settings, settings_ref, raw_header, crc32,
                   parser_settings, undo_stack, redo_stack, invalid_fields, entries, loads,
                   hist>>

\* ProgressDialog.cancel of the dialog of the write path
save_cancel ==
    /\ saver.open
    /\ grab \in {<<>>, SaveDialog}
    /\ saver' = [saver EXCEPT !.cancelled = TRUE, !.open = FALSE]
    /\ grab' = <<>>
    /\ UNCHANGED <<text, pc, out, reparsed, settings, settings_ref, raw_header, crc32,
                   parser_settings, undo_stack, redo_stack, invalid_fields, entries, loads,
                   files, hist>>

load_worker ==
    \E k \in 1..Len(loads) :
        \/ load_dialog(k)
        \/ parse_header(k)
        \/ parse_block(k)
        \/ parse_install(k)
        \/ parse_return(k)
        \/ load_assign(k)

LoadFinalize == \E k \in 1..Len(loads) : finalize_load(k)

LoadCancel == \E k \in 1..Len(loads) : load_cancel(k)

ComboSelect ==
    /\ pc = "gui"
    /\ hist.edits < MaxEdits
    /\ \E i \in 1..Len(entries.bound.list) :
          \E idx \in 1..Len(entries.bound.list[i].options) : on_combo_select(i, idx)

EntryChange ==
    /\ pc = "gui"
    /\ hist.edits < MaxEdits
    /\ \E i \in 1..Len(entries.bound.list) : \E e \in SessionInputs : on_entry_change(i, e)

ValidateTimer == pc = "gui" /\ \E i \in 1..Len(entries.timer) : validate_delayed(i)

FocusOut == pc = "gui" /\ \E i \in 1..Len(entries.bound.list) : on_focus_out(i)

Next ==
    \/ load_file
    \/ load_worker
    \/ LoadFinalize
    \/ LoadCancel
    \/ ComboSelect
    \/ EntryChange
    \/ ValidateTimer
    \/ FocusOut
    \/ undo
    \/ redo
    \/ display_current_page
    \/ save_file_only
    \/ save_path_chosen
    \/ save_and_import_bios_with_review
    \/ review_answered
    \/ confirm_answered
    \/ generate_header
    \/ generate_block
    \/ generate_done
    \/ generate_fail
    \/ save_cancel

Spec == Init /\ [][Next]_vars

-----------------------------------------------------------------------------
(* Properties of a session *)

\* C4 (validation blocks every write): on both write paths generate_nvram_file
\* is invoked only when the validator has no violation to report for the
\* current settings.
C4_ValidationBlocksWrite ==
    [][(saver.pc = "spawned" /\ saver'.pc = "blocks")
          => validate_settings_against_original(settings) = <<>>]_vars

\* C7 (cancelled load): once a cancelled load has ended, with no other load
\* running beside it, the settings list and the preserved header are those of
\* the document that was there when the load started.
C7_CancelledLoadLeavesDocument ==
    \A k \in 1..Len(loads) :
        (loads[k].cancelled /\ loads[k].pc = "done" /\ loads[k].solo /\ k = Len(loads))
            => /\ DocOf(settings) = loads[k].before.doc
               /\ raw_header = loads[k].before.raw_header

\* the loads inside parse_file
Parsing == {k \in 1..Len(loads) : loads[k].pc \in {"header", "loop", "return"}}

\* C8 (newest load wins): at most one parse is in flight, and when all loads
\* have ended uncancelled the settings list and the header are those of the
\* file of the load started last.
C8_NewestLoadWins ==
    /\ Cardinality(Parsing) <= 1
    /\ (loads # <<>> /\ \A k \in 1..Len(loads) : loads[k].pc = "done" /\ ~loads[k].cancelled)
          => /\ DocOf(settings) = DocOf(ParseSettings(loads[Len(loads)].file))
             /\ raw_header = HeaderOf(loads[Len(loads)].file)

\* C9 (edits serialized against generation): while generate_nvram_file is
\* running no step changes the token -> current_value mapping of the settings.
C9_EditsSerialized ==
    [][saver.pc = "blocks" => Mapping(settings') = Mapping(settings)]_vars

\* a setting whose current_value is outside its option set or its range
FailsValidation(setting) ==
    \/ /\ setting.options # <<>>
       /\ \A o \in 1..Len(setting.options) : setting.options[o].value # setting.current_value
    \/ /\ HasRange(setting)
       /\ \/ DecimalOrHex(setting.current_value) = <<>>
          \/ DecimalOrHex(setting.current_value)[1] < setting.range_min
          \/ DecimalOrHex(setting.current_value)[1] > setting.range_max

\* a step that moved a snapshot from one stack to the other: undo() or redo() ran
UndoRan == Len(redo_stack') = Len(redo_stack) + 1
RedoRan ==
    /\ redo_stack # <<>>
    /\ redo_stack' = SubSeq(redo_stack, 1, Len(redo_stack) - 1)
    /\ undo_stack' # <<>>
    /\ undo_stack'[Len(undo_stack')] = Snapshot(settings)

\* C17 (undo and redo refused): while some setting fails validation, undo() and
\* redo() change no current_value and neither stack.
C17_UndoRedoRefused ==
    [][(\E k \in 1..Len(settings) : FailsValidation(settings[k]))
          => ~(UndoRan \/ RedoRan)]_vars

\* what undo() and redo() look at instead: the tokens the entry widgets marked invalid
RefusedWhileMarked ==
    [][invalid_fields # {} => ~(UndoRan \/ RedoRan)]_vars

\* C22 (cancelled generation): once the user has cancelled the progress dialog of
\* a save or an import, the generate task stops: nothing more is written and
\* the external tool is not run on the import file.
C22_CancelledGenerationStops ==
    [][(saver.cancelled /\ saver.pc = "blocks") => files' = files]_vars

\* the tokens a snapshot holds
TokensOf(state) == {state[j].token : j \in 1..Len(state)}

\* settings after the step: those before it, with the values of state written
\* to the settings whose token state holds and to no other
AppliedPartially(state) ==
    /\ Len(settings') = Len(settings)
    /\ \A k \in 1..Len(settings) :
          /\ settings'[k].token \notin TokensOf(state)
                => settings'[k].current_value = settings[k].current_value
          /\ settings'[k].token \in TokensOf(state)
                => \E j \in 1..Len(state) :
                      /\ state[j].token = settings'[k].token
                      /\ state[j].value = settings'[k].current_value
          /\ settings'[k].token = settings[k].token
          /\ settings'[k].options = settings[k].options
          /\ settings'[k].range_min = settings[k].range_min
          /\ settings'[k].range_max = settings[k].range_max
          /\ settings'[k].original_block_lines = settings[k].original_block_lines

\* C26 (partial application of a snapshot): undo() and redo() write current_value
\* only to the settings whose token the applied snapshot holds; a setting whose
\* token it lacks keeps its value, and no token, option list, range or
\* original_block_lines changes.
C26_PartialApplication ==
    [][/\ UndoRan => AppliedPartially(undo_stack[Len(undo_stack)])
       /\ RedoRan => AppliedPartially(redo_stack[Len(redo_stack)])]_vars

\* undo() or redo() has applied a snapshot that lacks the token of a setting: one
\* pushed before the document was replaced by a load
C26_Witness == hist.absent /\ settings # <<>>

\* the current_value the parser gave the setting when it read its block
ParsedValue(setting) ==
    _parse_setting_block_optimized(JoinWith(setting.original_block_lines, <<NL>>))[1].current_value

\* C27 (change review accurate): the review shown before an import lists exactly
\* the settings whose current_value differs from the value they were parsed
\* with; with no setting edited, no review of changes is put up and no import
\* goes on.
C27_ChangeReviewAccurate ==
    /\ [][(saver.pc = "idle" /\ saver'.pc = "review") =>
            ReviewChanges(settings) =
                {k \in 1..Len(settings) : settings[k].current_value # ParsedValue(settings[k])}]_vars
    /\ [](hist.edits = 0 => ~(saver.kind = "import" /\ saver.pc # "idle"))

\* the steps of the import path, in the order the code takes them
ImportOrder == <<"check", "review", "validate", "confirm">>

\* C28 (import ordering): the firmware tool is run in import mode only after the
\* invalid-field check passed, the review was accepted, the validator returned
\* no violation and the user confirmed, in this order, and after
\* generate_nvram_file wrote the whole import file and returned True; a
\* generation that fails ends the import without the tool.
C28_ImportOrdering ==
    [][/\ (files'.imported /\ ~files.imported) =>
             /\ saver.kind = "import"
             /\ saver.trail = ImportOrder
             /\ saver.pc = "blocks"
             /\ saver.j > Len(saver.ref.list)
             /\ files'.saved
       /\ (saver.pc = "blocks" /\ saver'.pc = "idle" /\ ~files'.saved) =>
             files'.imported = files.imported]_vars

\* the tool has run on a written import file
C28_Witness == files.imported /\ files.saved /\ saver.pc = "idle" /\ saver.runs = 1

====
